---- MODULE Spec2Model ----
(***************************************************************************)
(* Client side of the git transport: the Transport trait, RequestWriter,   *)
(* WritePacketOnDrop, ResponseReader and the protocol V2 invoke helper of   *)
(* git-transport/src/client/mod.rs, and the signature decoder of          *)
(* git-actor/src/immutable/signature.rs.                                   *)
(*                                                                         *)
(* Strings are sequences of one-character strings.  An Option is a         *)
(* sequence of length 0 (None) or 1 (Some).  The log holds, for the        *)
(* current request, every attempt to write a packet to the sink (with its  *)
(* outcome, and with the buffer the caller handed to write() when a write  *)
(* call caused it) and every read of the response, in the order they       *)
(* happened; the packets of earlier requests have been taken by the peer.  *)
(***************************************************************************)
EXTENDS Integers, Sequences, FiniteSets, TLC

\* ---------------------------------------------------------------- bounds
MaxLen == 1
MaxCaps == 2
MaxWrites == 2
MaxOnDrop == 2
MaxRequests == 2
MaxHandshakes == 1
MaxRefs == 1
MaxResponse == 2
MaxFailAt == 3
MaxSigLen == 2

\* ------------------------------------------------------------ data types
None == <<>>
Some(x) == <<x>>

Chars == {"a"}
Strs == UNION {[1..n -> Chars] : n \in 0..MaxLen}
Bufs == Strs \ {<<>>}

WriteModes == {"Binary", "OneLFTerminatedLinePerWriteCall"}

Flush == [kind |-> "Flush", bytes |-> <<>>]
Text(t) == [kind |-> "Text", bytes |-> t]
MessageKinds == {Flush, Text(<<"d", "o", "n", "e">>)}
OnDropLists == UNION {[1..n -> MessageKinds] : n \in 0..MaxOnDrop}

CapEntries == [name : Strs, value : {None} \cup {Some(s) : s \in Strs}]
CapLists == UNION {[1..n -> CapEntries] : n \in 0..MaxCaps}
ArgOpts == {None, Some(<< <<"a">> >>)}

Protocols == {"V1", "V2"}
ProtocolRank(p) == IF p = "V1" THEN 1 ELSE 2
\* Variant: the server's protocol is taken as it is, also when it is
\* newer than the one asked for.
MinProtocolServerWins(p, q) == q
MinProtocol(p, q) == IF ProtocolRank(p) <= ProtocolRank(q) THEN p ELSE q

\* ------------------------------------------------------------- the sink
\* What the sink answers to the i-th write attempt of one operation: it
\* works until attempt plan.at, fails there with plan.kind, and afterwards
\* keeps failing (sticky) or works again.  at = 0: it never fails.
NoFault == [at |-> 0, kind |-> "err", sticky |-> FALSE]
Plans ==
    {NoFault} \cup [at : 1..MaxFailAt, kind : {"err"}, sticky : BOOLEAN]
              \cup [at : 1..MaxFailAt, kind : {"intr"}, sticky : {FALSE}]
SinkOutcome(plan, i) ==
    IF plan.at = 0 \/ i < plan.at THEN "ok"
    ELSE IF i = plan.at THEN plan.kind
    ELSE IF plan.sticky THEN "err" ELSE "ok"
Outcomes == {"ok", "intr", "err"}

\* ----------------------------------------------------- packet line codec
\* One write call is framed as one packet: a data packet in binary mode, a
\* line packet (the bytes, LF terminated) in text mode.
Frame(m, buf) == [kind |-> IF m = "Binary" THEN "data" ELSE "line", bytes |-> buf]
\* PacketLine::Flush.to_write and borrowed::Text::from(t).to_write
ControlPacket(msg) ==
    IF msg.kind = "Flush" THEN [kind |-> "flush", bytes |-> <<>>]
    ELSE [kind |-> "text", bytes |-> msg.bytes]
ResponsePacket == [kind |-> "response", bytes |-> <<>>]

\* --------------------------------------------------------- RequestWriter
\* Variant: the queued messages are never attached to the writer.
NewFromBufreadUndecorated(write_mode, on_drop) ==
    [mode |-> write_mode, decorated |-> FALSE, on_drop |-> <<>>]

\* Variant: the two write modes are mixed up at construction.
NewFromBufreadModesSwapped(write_mode, on_drop) ==
    [mode |-> IF write_mode = "Binary" THEN "OneLFTerminatedLinePerWriteCall"
              ELSE "Binary",
     decorated |-> on_drop # <<>>,
     on_drop |-> IF on_drop # <<>> THEN on_drop ELSE <<>>]

NoWriter == [mode |-> "none", decorated |-> FALSE, on_drop |-> <<>>]
NewFromBufread(write_mode, on_drop) ==
    [mode |-> write_mode,
     decorated |-> on_drop # <<>>,
     on_drop |-> IF on_drop # <<>> THEN on_drop ELSE <<>>]

\* Variant: WritePacketOnDrop::write writes to the sink below the framing
\* writer, so that a decorated writer sends the bytes without a frame.
WriterWriteDecoratedUnframed(w, buf, o) ==
    [res |-> o,
     n |-> IF o = "ok" THEN Len(buf) ELSE 0,
     evs |-> << [ph |-> "write", buf |-> buf,
                 pkt |-> IF w.decorated THEN [kind |-> "raw", bytes |-> buf]
                         ELSE Frame(w.mode, buf),
                 st |-> o] >>]

\* RequestWriter::write -> (WritePacketOnDrop::write ->) Writer::write
WriterWrite(w, buf, o) ==
    [res |-> o,
     n |-> IF o = "ok" THEN Len(buf) ELSE 0,
     evs |-> << [ph |-> "write", buf |-> buf, pkt |-> Frame(w.mode, buf),
                st |-> o] >>]

\* std::io::Write::write_all over RequestWriter::write: no call for an empty
\* buffer, a call that fails with Interrupted is issued again, any other
\* error is returned.
RECURSIVE WriteAll(_, _, _, _)
WriteAll(w, buf, plan, i) ==
    IF buf = <<>> THEN [res |-> "ok", evs |-> <<>>, next |-> i]
    ELSE LET r == WriterWrite(w, buf, SinkOutcome(plan, i))
         IN IF r.res = "ok"
            THEN LET t == WriteAll(w, SubSeq(buf, r.n + 1, Len(buf)), plan, i + 1)
                 IN [t EXCEPT !.evs = r.evs \o @]
            ELSE IF r.res = "intr"
            THEN LET t == WriteAll(w, buf, plan, i + 1)
                 IN [t EXCEPT !.evs = r.evs \o @]
            ELSE [res |-> "err", evs |-> r.evs, next |-> i + 1]

\* Variant: the queue is emptied from its end (pop) instead of drained.
RECURSIVE DrainLifo(_, _, _)
DrainLifo(q, plan, i) ==
    IF q = <<>> THEN [evs |-> <<>>, panicked |-> FALSE]
    ELSE LET o == SinkOutcome(plan, i)
             ev == [ph |-> "teardown", buf |-> <<>>, pkt |-> ControlPacket(q[Len(q)]), st |-> o]
         IN IF o = "ok"
            THEN LET t == DrainLifo(SubSeq(q, 1, Len(q) - 1), plan, i + 1)
                 IN [t EXCEPT !.evs = <<ev>> \o @]
            ELSE [evs |-> <<ev>>, panicked |-> TRUE]

\* Variant: a failed write is discarded (.ok()) instead of unwrapped.
RECURSIVE DrainIgnoringErrors(_, _, _)
DrainIgnoringErrors(q, plan, i) ==
    IF q = <<>> THEN [evs |-> <<>>, panicked |-> FALSE]
    ELSE LET o == SinkOutcome(plan, i)
             ev == [ph |-> "teardown", buf |-> <<>>, pkt |-> ControlPacket(Head(q)), st |-> o]
             t == DrainIgnoringErrors(Tail(q), plan, i + 1)
         IN [t EXCEPT !.evs = <<ev>> \o @]

\* Variant: a message whose write failed is written a second time before
\* the panic.
RECURSIVE DrainRetrying(_, _, _)
DrainRetrying(q, plan, i) ==
    IF q = <<>> THEN [evs |-> <<>>, panicked |-> FALSE]
    ELSE LET o == SinkOutcome(plan, i)
             ev == [ph |-> "teardown", buf |-> <<>>, pkt |-> ControlPacket(Head(q)), st |-> o]
         IN IF o = "ok"
            THEN LET t == DrainRetrying(Tail(q), plan, i + 1)
                 IN [t EXCEPT !.evs = <<ev>> \o @]
            ELSE [evs |-> <<ev, [ev EXCEPT !.st = SinkOutcome(plan, i + 1)]>>,
                  panicked |-> TRUE]

\* WritePacketOnDrop::drop: the queued messages in order, straight to the
\* sink; the first failed write panics (expect) and leaves the rest unsent.
RECURSIVE Drain(_, _, _)
Drain(q, plan, i) ==
    IF q = <<>> THEN [evs |-> <<>>, panicked |-> FALSE]
    ELSE LET o == SinkOutcome(plan, i)
             ev == [ph |-> "teardown", buf |-> <<>>, pkt |-> ControlPacket(Head(q)), st |-> o]
         IN IF o = "ok"
            THEN LET t == Drain(Tail(q), plan, i + 1)
                 IN [t EXCEPT !.evs = <<ev>> \o @]
            ELSE [evs |-> <<ev>>, panicked |-> TRUE]

\* Variant: the queued messages are written through the framing writer
\* (self.inner) instead of the sink below it (self.inner.inner).
DropWriterBoxFramed(w, plan, i) ==
    IF w.decorated
    THEN LET d == Drain(w.on_drop, plan, i)
         IN [d EXCEPT !.evs = [j \in 1..Len(d.evs) |->
                [d.evs[j] EXCEPT !.pkt = Frame(w.mode, w.on_drop[j].bytes)]]]
    ELSE [evs |-> <<>>, panicked |-> FALSE]

\* Dropping the boxed writer of a RequestWriter: only the decorated one has
\* a Drop implementation.
DropWriterBox(w, plan, i) ==
    IF w.decorated THEN Drain(w.on_drop, plan, i)
    ELSE [evs |-> <<>>, panicked |-> FALSE]

\* -------------------------------------------------------- ResponseReader
\* The reply of the server is a sequence of lines: payload ("data") or one
\* of the two sideband channels ("progress", "error").  A reader holds the
\* reply, how many of its lines it has taken (pos), the installed progress
\* handler, the payload line filled into its buffer and not yet consumed
\* (buf), the lines handed to the caller as payload, the calls made to a
\* handler, and for every line taken whether a handler was installed then
\* (met).  Lines are named by their position in the reply.
LineKinds == {"data", "progress", "error"}
Replies == UNION {[1..n -> LineKinds] : n \in 0..MaxResponse}
DataReply == [i \in 1..MaxResponse |-> "data"]
Handlers == {"f"}
HandlerOpts == {None} \cup {Some(h) : h \in Handlers}

FreshReader(reply) ==
    [reply |-> reply, pos |-> 0, handler |-> None, buf |-> None,
     payload |-> <<>>, calls |-> <<>>, met |-> <<>>]

\* fill_buf of the sideband reader: with a line buffered it returns that
\* line; otherwise it takes lines off the reply until one is payload.  With
\* a handler installed a sideband line goes to the handler (with the flag
\* of its channel) and the next line is taken; without one every line is
\* payload.
RECURSIVE FillBuf(_)
FillBuf(r) ==
    IF r.buf # None \/ r.pos = Len(r.reply) THEN r
    ELSE LET i == r.pos + 1
             taken == [r EXCEPT !.pos = i, !.met = Append(@, r.handler # None)]
         IN IF r.handler # None /\ r.reply[i] # "data"
            THEN FillBuf([taken EXCEPT
                            !.calls = Append(@, [h |-> r.handler[1],
                                                 is_err |-> r.reply[i] = "error",
                                                 line |-> i])])
            ELSE [taken EXCEPT !.buf = Some(i)]

\* consume of the sideband reader: the buffered line is handed over.
Consume(r) ==
    IF r.buf = None THEN r
    ELSE [r EXCEPT !.payload = Append(@, r.buf[1]), !.buf = None]

\* ------------------------------------------- git-actor: decode::signature
\* The input is a byte string '<name> <<email>> <timestamp> <+|-><HHMM>',
\* possibly followed by more bytes.  It is made here from its parts, so that
\* what the decoder returns can be compared with them.
SigNameChars == {"n", " ", "<"}
SigEmailChars == {"e", " ", ">"}
SigNames == UNION {[1..n -> SigNameChars] : n \in 0..MaxSigLen}
SigEmails == UNION {[1..n -> SigEmailChars] : n \in 0..MaxSigLen}
SigTimes == {<<"0">>, <<"7">>, <<"4", "2">>, <<"x">>}
SigTzSigns == {"+", "-"}
SigTwoDigits == {<<"0", "0">>, <<"0", "2">>, <<"1", "2">>, <<"9", "9">>}
SigTrailers == {<<>>, <<"5">>}
SigParts ==
    [name : SigNames, email : SigEmails, time : SigTimes, tz : SigTzSigns,
     hh : SigTwoDigits, mm : SigTwoDigits, rest : SigTrailers]
SigInput(p) ==
    p.name \o <<" ", "<">> \o p.email \o <<">", " ">> \o p.time \o <<" ">>
           \o <<p.tz>> \o p.hh \o p.mm \o p.rest

DigitChars == <<"0", "1", "2", "3", "4", "5", "6", "7", "8", "9">>
IsDigit(c) == \E d \in 1..10 : DigitChars[d] = c
DigitValue(c) == (CHOOSE d \in 1..10 : DigitChars[d] = c) - 1
\* btoi: the number written by the digits, -1 (an error) for an empty string
\* or one with another byte in it.  The strings used here are short: the
\* overflow check of btoi is never met.
RECURSIVE Btoi(_)
Btoi(b) ==
    IF b = <<>> \/ ~IsDigit(b[Len(b)]) THEN -1
    ELSE IF Len(b) = 1 THEN DigitValue(b[1])
    ELSE LET hi == Btoi(SubSeq(b, 1, Len(b) - 1))
         IN IF hi < 0 THEN -1 ELSE hi * 10 + DigitValue(b[Len(b)])
\* take_until(pat): the position of the first occurrence of pat, 0 for none.
TakeUntil(i, pat) ==
    LET at == {k \in 1..(Len(i) - Len(pat) + 1) : SubSeq(i, k, k + Len(pat) - 1) = pat}
    IN IF at = {} THEN 0 ELSE CHOOSE k \in at : \A j \in at : k <= j
Drop(i, n) == SubSeq(i, n + 1, Len(i))
\* take_while_m_n(2, 2, is_digit)
TakeTwoDigits(i) == Len(i) >= 2 /\ IsDigit(i[1]) /\ IsDigit(i[2])

SigError == [ok |-> FALSE, name |-> <<>>, email |-> <<>>, time |-> 0,
             sign |-> "Plus", offset |-> 0, rest |-> <<>>]

\* Variant: the sign is taken from the value of the hours, so that '-0000'
\* comes out as Plus.
SignatureSignFromValue(i) ==
    LET p1 == TakeUntil(i, <<" ", "<">>)
        i1 == Drop(i, p1 + 1)
        p2 == TakeUntil(i1, <<">", " ">>)
        i2 == Drop(i1, p2 + 1)
        p3 == TakeUntil(i2, <<" ">>)
        i3 == Drop(i2, p3)
        time == Btoi(SubSeq(i2, 1, p3 - 1))
        i4 == Drop(i3, 1)
        i5 == Drop(i4, 2)
        hours == Btoi(SubSeq(i4, 1, 2))
        minutes == Btoi(SubSeq(i5, 1, 2))
        offset == (hours * 3600 + minutes * 60) * (IF i3[1] = "-" THEN -1 ELSE 1)
    IN IF p1 = 0 THEN SigError
       ELSE IF p2 = 0 THEN SigError
       ELSE IF p3 = 0 \/ time < 0 THEN SigError
       ELSE IF i3 = <<>> \/ i3[1] \notin {"-", "+"} THEN SigError
       ELSE IF ~TakeTwoDigits(i4) THEN SigError
       ELSE IF ~TakeTwoDigits(i5) THEN SigError
       ELSE [ok |-> TRUE,
             name |-> SubSeq(i, 1, p1 - 1),
             email |-> SubSeq(i1, 1, p2 - 1),
             time |-> time,
             sign |-> IF offset < 0 THEN "Minus" ELSE "Plus",
             offset |-> offset,
             rest |-> Drop(i5, 2)]

\* decode::signature: name up to the first " <", email up to the first
\* "> ", timestamp up to the next space, the sign byte, two digits of hours
\* and two of minutes; what follows is handed back.
Signature(i) ==
    LET p1 == TakeUntil(i, <<" ", "<">>)
        i1 == Drop(i, p1 + 1)
        p2 == TakeUntil(i1, <<">", " ">>)
        i2 == Drop(i1, p2 + 1)
        p3 == TakeUntil(i2, <<" ">>)
        i3 == Drop(i2, p3)
        time == Btoi(SubSeq(i2, 1, p3 - 1))
        i4 == Drop(i3, 1)
        i5 == Drop(i4, 2)
        hours == Btoi(SubSeq(i4, 1, 2))
        minutes == Btoi(SubSeq(i5, 1, 2))
        sign == IF i3[1] = "-" THEN "Minus" ELSE "Plus"
    IN IF p1 = 0 THEN SigError
       ELSE IF p2 = 0 THEN SigError
       ELSE IF p3 = 0 \/ time < 0 THEN SigError
       ELSE IF i3 = <<>> \/ i3[1] \notin {"-", "+"} THEN SigError
       ELSE IF ~TakeTwoDigits(i4) THEN SigError
       ELSE IF ~TakeTwoDigits(i5) THEN SigError
       ELSE [ok |-> TRUE,
             name |-> SubSeq(i, 1, p1 - 1),
             email |-> SubSeq(i1, 1, p2 - 1),
             time |-> time,
             sign |-> sign,
             offset |-> (hours * 3600 + minutes * 60)
                           * (IF sign = "Minus" THEN -1 ELSE 1),
             rest |-> Drop(i5, 2)]

NoSignature == [parts |-> None, input |-> <<>>, out |-> None]

\* ------------------------------------------------------------------ state
VARIABLES alive, result, handshaken, requested, actual, hsCount, live,
          refsLeft, reqId, phase, writer, given, log, call, rd, sig

vars == <<alive, result, handshaken, requested, actual, hsCount, live,
          refsLeft, reqId, phase, writer, given, log, call, rd, sig>>

NoHandle == [refs |-> 0, writer |-> 0, reader |-> 0]
LiveCount == live.refs + live.writer + live.reader
\* What the caller asked for last (invoke's parameters and whether the
\* backend's request() worked), and how the current writer was constructed.
NoCall == [op |-> "none", command |-> <<>>, capabilities |-> <<>>,
           arguments |-> None, request_ok |-> TRUE]
NoGiven == [write_mode |-> "none", on_drop |-> <<>>]

Init ==
    /\ alive = TRUE
    /\ result = "none"
    /\ handshaken = FALSE
    /\ requested = "V1"
    /\ actual = "V1"
    /\ hsCount = 0
    /\ live = NoHandle
    /\ refsLeft = 0
    /\ reqId = 0
    /\ phase = "idle"
    /\ writer = NoWriter
    /\ given = NoGiven
    /\ log = <<>>
    /\ call = NoCall
    /\ rd = FreshReader(DataReply)
    /\ sig = NoSignature

\* -------------------------------------------------------------- Transport
\* Variant: the ResponseReader does not carry the borrow of the transport.
BorrowFreeReaderUntracked == live.refs + live.writer = 0

\* handshake, request and invoke take `&mut self` and what they return
\* borrows from it: none of them can be called while a ref stream, a
\* RequestWriter or a ResponseReader of this transport is alive.
BorrowFree == live.refs + live.writer + live.reader = 0

\* The record of a finished request has been cleared, see Settle.
Settled == log = <<>> /\ given = NoGiven /\ call = NoCall /\ result = "none"

\* A method of the transport can be called.
CanCall == alive /\ BorrowFree /\ Settled

ReadEvents == SelectSeq(log, LAMBDA e : e.ph = "read")
WriteEvents == SelectSeq(log, LAMBDA e : e.ph = "write")

\* Transport::handshake: the server answers with the protocol it speaks, at
\* most the requested one; the ref stream comes with V1 only.
Handshake(req, srv, n, ok) ==
    /\ CanCall
    /\ hsCount' = hsCount + 1
    /\ requested' = req
    /\ IF ok
       THEN /\ handshaken' = TRUE
            /\ actual' = MinProtocol(req, srv)
            /\ live' = [live EXCEPT !.refs = IF MinProtocol(req, srv) = "V1" THEN 1 ELSE 0]
            /\ refsLeft' = IF MinProtocol(req, srv) = "V1" THEN n ELSE 0
            /\ result' = "handshake"
       ELSE /\ result' = "err_handshake"
            /\ UNCHANGED <<handshaken, actual, live, refsLeft>>
    /\ UNCHANGED <<alive, reqId, phase, writer, given, log, call>>
    /\ UNCHANGED <<rd, sig>>

\* Reading one line of SetServiceResponse::refs.
ReadRefs ==
    /\ alive /\ live.refs = 1 /\ refsLeft > 0
    /\ refsLeft' = refsLeft - 1
    /\ UNCHANGED <<alive, result, handshaken, requested, actual, hsCount, live,
                   reqId, phase, writer, given, log, call>>
    /\ UNCHANGED <<rd, sig>>

\* The caller lets go of the SetServiceResponse, drained or not.
DropRefs ==
    /\ alive /\ live.refs = 1
    /\ live' = [live EXCEPT !.refs = 0]
    /\ UNCHANGED <<alive, result, handshaken, requested, actual, hsCount,
                   refsLeft, reqId, phase, writer, given, log, call>>
    /\ UNCHANGED <<rd, sig>>

\* Transport::request
Request(write_mode, on_drop, ok) ==
    /\ CanCall
    /\ IF ~handshaken
       THEN /\ alive' = FALSE
            /\ result' = "panic_no_handshake"
            /\ UNCHANGED <<live, reqId, phase, writer, given, log, call>>
       ELSE IF ~ok
       THEN /\ result' = "err_request"
            /\ UNCHANGED <<alive, live, reqId, phase, writer, given, log, call>>
       ELSE /\ writer' = NewFromBufread(write_mode, on_drop)
            /\ given' = [write_mode |-> write_mode, on_drop |-> on_drop]
            /\ live' = [live EXCEPT !.writer = 1]
            /\ reqId' = reqId + 1
            /\ phase' = "writing"
            /\ log' = <<>>
            /\ call' = NoCall
            /\ result' = "writer"
            /\ UNCHANGED alive
    /\ UNCHANGED <<handshaken, requested, actual, hsCount, refsLeft>>
    /\ rd' = FreshReader(rd.reply)
    /\ UNCHANGED sig

\* <RequestWriter as io::Write>::write
Write(buf, o) ==
    /\ alive /\ live.writer = 1
    /\ LET r == WriterWrite(writer, buf, o)
       IN /\ log' = log \o r.evs
          /\ result' = IF r.res = "ok" THEN "ok" ELSE "err_io"
    /\ UNCHANGED <<alive, handshaken, requested, actual, hsCount, live,
                   refsLeft, reqId, phase, writer, given, call>>
    /\ UNCHANGED <<rd, sig>>

\* <RequestWriter as io::Write>::flush: flushes the sink, frames nothing.
FlushWriter(o) ==
    /\ alive /\ live.writer = 1
    /\ result' = IF o = "ok" THEN "ok" ELSE "err_io"
    /\ UNCHANGED <<alive, handshaken, requested, actual, hsCount, live,
                   refsLeft, reqId, phase, writer, given, log, call>>
    /\ UNCHANGED <<rd, sig>>

\* Variant: into_read borrows the writer instead of consuming it.
IntoReadKeepsWriter(plan) ==
    /\ alive /\ live.writer = 1 /\ live.reader = 0
    /\ live' = [live EXCEPT !.reader = 1]
    /\ result' = "reader"
    /\ phase' = "reading"
    /\ UNCHANGED <<alive, handshaken, requested, actual, hsCount, refsLeft,
                   reqId, writer, given, log, call>>
    /\ UNCHANGED <<rd, sig>>

\* Variant: into_read fills the reader's buffer before handing it out.
IntoReadFillingBuffer(plan) ==
    /\ alive /\ live.writer = 1
    /\ LET d == DropWriterBox(writer, plan, 1)
       IN /\ log' = log \o d.evs
          /\ IF d.panicked
             THEN /\ alive' = FALSE
                  /\ result' = "panic_teardown"
                  /\ live' = NoHandle
                  /\ phase' = "faulted"
             ELSE /\ live' = [live EXCEPT !.writer = 0, !.reader = 1]
                  /\ result' = "reader"
                  /\ phase' = "reading"
                  /\ UNCHANGED alive
    /\ writer' = NoWriter
    /\ UNCHANGED <<handshaken, requested, actual, hsCount, refsLeft, reqId, given, call>>
    /\ rd' = FillBuf(rd)
    /\ UNCHANGED sig

\* RequestWriter::into_read: the reader moves into the ResponseReader, the
\* boxed writer is dropped before the function returns.
IntoRead(plan) ==
    /\ alive /\ live.writer = 1
    /\ LET d == DropWriterBox(writer, plan, 1)
       IN /\ log' = log \o d.evs
          /\ IF d.panicked
             THEN /\ alive' = FALSE
                  /\ result' = "panic_teardown"
                  /\ live' = NoHandle
                  /\ phase' = "faulted"
             ELSE /\ live' = [live EXCEPT !.writer = 0, !.reader = 1]
                  /\ result' = "reader"
                  /\ phase' = "reading"
                  /\ UNCHANGED alive
    /\ writer' = NoWriter
    /\ UNCHANGED <<handshaken, requested, actual, hsCount, refsLeft, reqId, given, call>>
    /\ UNCHANGED <<rd, sig>>

\* The RequestWriter goes out of scope without into_read().
DropWriter(plan) ==
    /\ alive /\ live.writer = 1
    /\ LET d == DropWriterBox(writer, plan, 1)
       IN /\ log' = log \o d.evs
          /\ IF d.panicked
             THEN /\ alive' = FALSE
                  /\ result' = "panic_teardown"
                  /\ phase' = "faulted"
             ELSE /\ result' = "dropped"
                  /\ phase' = "dropped"
                  /\ UNCHANGED alive
    /\ live' = NoHandle
    /\ writer' = NoWriter
    /\ UNCHANGED <<handshaken, requested, actual, hsCount, refsLeft, reqId, given, call>>
    /\ UNCHANGED <<rd, sig>>

\* <ResponseReader as io::Read>::read / BufRead::fill_buf + consume
Read ==
    /\ alive /\ live.reader = 1
    /\ rd.buf # None \/ rd.pos < Len(rd.reply)
    /\ rd' = Consume(FillBuf(rd))
    /\ UNCHANGED sig
    /\ log' = IF Len(rd'.payload) > Len(rd.payload)
              THEN Append(log, [ph |-> "read", buf |-> <<>>,
                                pkt |-> ResponsePacket, st |-> "ok"])
              ELSE log
    /\ UNCHANGED <<alive, result, handshaken, requested, actual, hsCount, live,
                   refsLeft, reqId, phase, writer, given, call>>

\* The caller lets go of the ResponseReader, read to its end or not.
DropReader ==
    /\ alive /\ live.reader = 1
    /\ live' = [live EXCEPT !.reader = 0]
    /\ phase' = IF rd.pos = Len(rd.reply) /\ rd.buf = None
                THEN "done" ELSE "abandoned"
    /\ UNCHANGED <<alive, result, handshaken, requested, actual, hsCount,
                   refsLeft, reqId, writer, given, log, call>>
    /\ UNCHANGED <<rd, sig>>

\* Variant: installing a handler starts from an empty buffer.
SetProgressHandlerDroppingBuffer(handle_progress) ==
    /\ alive /\ live.reader = 1
    /\ rd' = [rd EXCEPT !.handler = handle_progress, !.buf = None]
    /\ UNCHANGED sig
    /\ UNCHANGED <<alive, result, handshaken, requested, actual, hsCount, live,
                   refsLeft, reqId, phase, writer, given, log, call>>

\* <ResponseReader as ExtendedBufRead>::set_progress_handler
SetProgressHandler(handle_progress) ==
    /\ alive /\ live.reader = 1
    /\ rd' = [rd EXCEPT !.handler = handle_progress]
    /\ UNCHANGED sig
    /\ UNCHANGED <<alive, result, handshaken, requested, actual, hsCount, live,
                   refsLeft, reqId, phase, writer, given, log, call>>

\* <ResponseReader as io::BufRead>::fill_buf
ReaderFillBuf ==
    /\ alive /\ live.reader = 1
    /\ rd.buf = None /\ rd.pos < Len(rd.reply)
    /\ rd' = FillBuf(rd)
    /\ UNCHANGED sig
    /\ UNCHANGED <<alive, result, handshaken, requested, actual, hsCount, live,
                   refsLeft, reqId, phase, writer, given, log, call>>

\* <ResponseReader as io::BufRead>::consume
ReaderConsume ==
    /\ alive /\ live.reader = 1
    /\ rd.buf # None
    /\ rd' = Consume(rd)
    /\ UNCHANGED sig
    /\ log' = Append(log, [ph |-> "read", buf |-> <<>>,
                           pkt |-> ResponsePacket, st |-> "ok"])
    /\ UNCHANGED <<alive, result, handshaken, requested, actual, hsCount, live,
                   refsLeft, reqId, phase, writer, given, call>>

\* The request is over and no handle is left: the peer has taken what was
\* sent, and the record of the request (what was asked, what reached the
\* sink, what was read) is closed before the transport is used again.
Settle ==
    /\ alive /\ BorrowFree /\ ~Settled
    /\ log' = <<>>
    /\ given' = NoGiven
    /\ call' = NoCall
    /\ result' = "none"
    /\ UNCHANGED <<alive, handshaken, requested, actual, hsCount, live,
                   refsLeft, reqId, phase, writer>>
    /\ rd' = FreshReader(rd.reply)
    /\ UNCHANGED sig

\* ------------------------------------------------------ TransportV2Ext
CommandPrefix == <<"c", "o", "m", "m", "a", "n", "d", "=">>
CommandLine(command) == CommandPrefix \o command
CapabilityLine(e) ==
    IF e.value # None THEN e.name \o <<"=">> \o e.value[1] ELSE e.name

\* Variant: the result of each write_all is dropped instead of returned.
RECURSIVE WriteCapabilitiesIgnoringErrors(_, _, _, _)
WriteCapabilitiesIgnoringErrors(w, caps, plan, i) ==
    IF caps = <<>> THEN [res |-> "ok", evs |-> <<>>, next |-> i]
    ELSE LET r == WriteAll(w, CapabilityLine(Head(caps)), plan, i)
             t == WriteCapabilitiesIgnoringErrors(w, Tail(caps), plan, r.next)
         IN [t EXCEPT !.evs = r.evs \o @]

\* The loop over the capabilities, left at the first failed write_all.
RECURSIVE WriteCapabilities(_, _, _, _)
WriteCapabilities(w, caps, plan, i) ==
    IF caps = <<>> THEN [res |-> "ok", evs |-> <<>>, next |-> i]
    ELSE LET r == WriteAll(w, CapabilityLine(Head(caps)), plan, i)
         IN IF r.res # "ok" THEN r
            ELSE LET t == WriteCapabilities(w, Tail(caps), plan, r.next)
                 IN [t EXCEPT !.evs = r.evs \o @]

\* Variant: the writer is leaked (mem::forget) on the early exits, so that
\* only into_read() emits the queued messages.
InvokeBodyLeakingWriter(command, capabilities, arguments, plan) ==
    LET w == NewFromBufread("OneLFTerminatedLinePerWriteCall", <<Flush>>)
        c == WriteAll(w, CommandLine(command), plan, 1)
        k == IF c.res = "ok" THEN WriteCapabilities(w, capabilities, plan, c.next)
             ELSE [res |-> "err", evs |-> <<>>, next |-> c.next]
        exit == IF k.res # "ok" THEN "err"
                ELSE IF arguments # None THEN "unimplemented"
                ELSE "into_read"
        d == IF exit = "into_read" THEN DropWriterBox(w, plan, k.next)
             ELSE [evs |-> <<>>, panicked |-> FALSE]
    IN [evs |-> c.evs \o k.evs \o d.evs,
        result |-> CASE exit = "err" -> "err_io"
                     [] exit = "unimplemented" -> "panic_unimplemented"
                     [] OTHER ->
                          IF d.panicked THEN "panic_teardown" ELSE "reader"]

\* The body of invoke once request() has returned the writer.
InvokeBody(command, capabilities, arguments, plan) ==
    LET w == NewFromBufread("OneLFTerminatedLinePerWriteCall", <<Flush>>)
        c == WriteAll(w, CommandLine(command), plan, 1)
        k == IF c.res = "ok" THEN WriteCapabilities(w, capabilities, plan, c.next)
             ELSE [res |-> "err", evs |-> <<>>, next |-> c.next]
        exit == IF k.res # "ok" THEN "err"
                ELSE IF arguments # None THEN "unimplemented"
                ELSE "into_read"
        d == DropWriterBox(w, plan, k.next)
    IN [evs |-> c.evs \o k.evs \o d.evs,
        result |-> CASE exit = "err" ->
                          IF d.panicked THEN "panic_teardown" ELSE "err_io"
                     [] exit = "unimplemented" ->
                          IF d.panicked THEN "abort" ELSE "panic_unimplemented"
                     [] OTHER ->
                          IF d.panicked THEN "panic_teardown" ELSE "reader"]

\* Variant: invoke goes on without a handshake instead of panicking.
InvokeWithoutHandshake(command, capabilities, arguments, ok, plan) ==
    /\ CanCall
    /\ call' = [op |-> "invoke", command |-> command,
                capabilities |-> capabilities, arguments |-> arguments,
                request_ok |-> ok]
    /\ IF ~ok
       THEN /\ result' = "err_request"
            /\ UNCHANGED <<alive, live, reqId, phase, given, log>>
       ELSE LET b == InvokeBody(command, capabilities, arguments, plan)
            IN /\ given' = [write_mode |-> "OneLFTerminatedLinePerWriteCall",
                            on_drop |-> <<Flush>>]
               /\ reqId' = reqId + 1
               /\ log' = b.evs
               /\ result' = b.result
               /\ alive' = (b.result \in {"reader", "err_io"})
               /\ live' = [live EXCEPT !.reader = IF b.result = "reader" THEN 1 ELSE 0]
               /\ phase' = CASE b.result = "reader" -> "reading"
                             [] b.result = "err_io" -> "dropped"
                             [] OTHER -> "faulted"
    /\ writer' = NoWriter
    /\ UNCHANGED <<handshaken, requested, actual, hsCount, refsLeft>>
    /\ rd' = FreshReader(rd.reply)
    /\ UNCHANGED sig

\* TransportV2Ext::invoke
Invoke(command, capabilities, arguments, ok, plan) ==
    /\ CanCall
    /\ call' = [op |-> "invoke", command |-> command,
                capabilities |-> capabilities, arguments |-> arguments,
                request_ok |-> ok]
    /\ IF ~handshaken
       THEN /\ alive' = FALSE
            /\ result' = "panic_no_handshake"
            /\ UNCHANGED <<live, reqId, phase, given, log>>
       ELSE IF ~ok
       THEN /\ result' = "err_request"
            /\ UNCHANGED <<alive, live, reqId, phase, given, log>>
       ELSE LET b == InvokeBody(command, capabilities, arguments, plan)
            IN /\ given' = [write_mode |-> "OneLFTerminatedLinePerWriteCall",
                            on_drop |-> <<Flush>>]
               /\ reqId' = reqId + 1
               /\ log' = b.evs
               /\ result' = b.result
               /\ alive' = (b.result \in {"reader", "err_io"})
               /\ live' = [live EXCEPT !.reader = IF b.result = "reader" THEN 1 ELSE 0]
               /\ phase' = CASE b.result = "reader" -> "reading"
                             [] b.result = "err_io" -> "dropped"
                             [] OTHER -> "faulted"
    /\ writer' = NoWriter
    /\ UNCHANGED <<handshaken, requested, actual, hsCount, refsLeft>>
    /\ rd' = FreshReader(rd.reply)
    /\ UNCHANGED sig

\* ---------------------------------------------------------- sessions
\* A whole session on one transport: handshake, then requests one after the
\* other, made through request() or through invoke.  The inputs are few, the
\* calls are many.
SessionOnDrop == {<<>>, <<Flush>>, <<Text(<<"d", "o", "n", "e">>), Flush>>}
SessionPlans == {NoFault, [at |-> 1, kind |-> "err", sticky |-> TRUE]}

Next ==
    \/ /\ CanCall /\ hsCount < MaxHandshakes
       /\ \E req \in Protocols, srv \in Protocols, n \in 0..MaxRefs, ok \in BOOLEAN :
             Handshake(req, srv, n, ok)
    \/ ReadRefs
    \/ DropRefs
    \/ /\ CanCall /\ reqId < MaxRequests
       /\ \E m \in WriteModes, od \in SessionOnDrop, ok \in BOOLEAN : Request(m, od, ok)
    \/ /\ WriteEvents = <<>>
       /\ \E o \in Outcomes : Write(<<"a">>, o)
    \/ \E o \in Outcomes : FlushWriter(o)
    \/ \E plan \in SessionPlans : IntoRead(plan)
    \/ \E plan \in SessionPlans : DropWriter(plan)
    \/ Read
    \/ DropReader
    \/ Settle
    \/ /\ CanCall /\ reqId < MaxRequests
       /\ \E arguments \in ArgOpts, ok \in BOOLEAN, plan \in SessionPlans :
             Invoke(<<"a">>, <<>>, arguments, ok, plan)

Spec == Init /\ [][Next]_vars

\* The transport after a successful handshake that negotiated V2.
InitHandshaken ==
    /\ alive = TRUE
    /\ result = "none"
    /\ handshaken = TRUE
    /\ requested = "V2"
    /\ actual = "V2"
    /\ hsCount = 1
    /\ live = NoHandle
    /\ refsLeft = 0
    /\ reqId = 0
    /\ phase = "idle"
    /\ writer = NoWriter
    /\ given = NoGiven
    /\ log = <<>>
    /\ call = NoCall
    /\ rd = FreshReader(DataReply)
    /\ sig = NoSignature

\* One request made through request(): every write mode and teardown list,
\* several writes, a sink that fails anywhere.
NextWriter ==
    \/ /\ CanCall
       /\ \E m \in WriteModes, od \in OnDropLists, ok \in BOOLEAN : Request(m, od, ok)
    \/ /\ Len(WriteEvents) < MaxWrites
       /\ \E buf \in Bufs, o \in Outcomes : Write(buf, o)
    \/ \E o \in Outcomes : FlushWriter(o)
    \/ \E plan \in Plans : IntoRead(plan)
    \/ \E plan \in Plans : DropWriter(plan)
    \/ Read
    \/ DropReader

SpecWriter == InitHandshaken /\ [][NextWriter]_vars

\* One call of invoke: every command, capability list and arguments, a
\* backend whose request() may fail, a sink that fails anywhere.
NextInvoke ==
    \/ /\ CanCall
       /\ \E command \in Strs, capabilities \in CapLists, arguments \in ArgOpts,
             ok \in BOOLEAN :
             \E plan \in IF ok THEN Plans ELSE {NoFault} :
                Invoke(command, capabilities, arguments, ok, plan)
    \/ DropReader

SpecInvoke == InitHandshaken /\ [][NextInvoke]_vars

\* Reading one response: every reply of payload and sideband lines, with a
\* progress handler installed, replaced or cleared between any two reads.
InitReader ==
    /\ alive = TRUE
    /\ result = "none"
    /\ handshaken = TRUE
    /\ requested = "V2"
    /\ actual = "V2"
    /\ hsCount = 1
    /\ live = NoHandle
    /\ refsLeft = 0
    /\ reqId = 0
    /\ phase = "idle"
    /\ writer = NoWriter
    /\ given = NoGiven
    /\ log = <<>>
    /\ call = NoCall
    /\ rd \in {FreshReader(reply) : reply \in Replies}
    /\ sig = NoSignature

NextReader ==
    \/ /\ CanCall
       /\ \E m \in WriteModes : Request(m, <<Flush>>, TRUE)
    \/ IntoRead(NoFault)
    \/ \E h \in HandlerOpts : SetProgressHandler(h)
    \/ ReaderFillBuf
    \/ ReaderConsume
    \/ Read
    \/ DropReader

SpecReader == InitReader /\ [][NextReader]_vars

\* Decoding one signature: every input made of the parts above.
InitSignature ==
    /\ alive = TRUE
    /\ result = "none"
    /\ handshaken = FALSE
    /\ requested = "V1"
    /\ actual = "V1"
    /\ hsCount = 0
    /\ live = NoHandle
    /\ refsLeft = 0
    /\ reqId = 0
    /\ phase = "idle"
    /\ writer = NoWriter
    /\ given = NoGiven
    /\ log = <<>>
    /\ call = NoCall
    /\ rd = FreshReader(DataReply)
    /\ sig \in {[parts |-> Some(p), input |-> SigInput(p), out |-> None] : p \in SigParts}

\* decode(i)
DecodeSignature ==
    /\ sig.out = None
    /\ sig' = [sig EXCEPT !.out = Some(Signature(sig.input))]
    /\ UNCHANGED <<alive, result, handshaken, requested, actual, hsCount, live,
                   refsLeft, reqId, phase, writer, given, log, call, rd>>

NextSignature == DecodeSignature

SpecSignature == InitSignature /\ [][NextSignature]_vars

\* ----------------------------------------------------- reading the log
\* The packets the sink has received for the current request.
SinkPackets ==
    LET got == SelectSeq(log, LAMBDA e : e.ph # "read" /\ e.st = "ok")
    IN [i \in 1..Len(got) |-> got[i].pkt]
\* The teardown messages the sink has received, and the attempts made.
TeardownEvents == SelectSeq(log, LAMBDA e : e.ph = "teardown")
TeardownSent ==
    LET got == SelectSeq(TeardownEvents, LAMBDA e : e.st = "ok")
    IN [i \in 1..Len(got) |-> got[i].pkt]
TeardownFailed == \E i \in 1..Len(log) : log[i].ph = "teardown" /\ log[i].st # "ok"
\* The writer of the current request has ended without a fault.
WriterEnded == phase \in {"reading", "done", "abandoned", "dropped"} /\ given # NoGiven
PhaseRank(ph) == CASE ph = "write" -> 0 [] ph = "teardown" -> 1 [] OTHER -> 2
LogInPhaseOrder ==
    \A i, j \in 1..Len(log) : i < j => PhaseRank(log[i].ph) <= PhaseRank(log[j].ph)
FlushPacket == [kind |-> "flush", bytes |-> <<>>]
TextPacket(t) == [kind |-> "text", bytes |-> t]
LinePacket(t) == [kind |-> "line", bytes |-> t]
ExpectedTeardown ==
    [i \in 1..Len(given.on_drop) |->
        IF given.on_drop[i].kind = "Flush" THEN FlushPacket
        ELSE TextPacket(given.on_drop[i].bytes)]
IsPrefix(a, b) == Len(a) <= Len(b) /\ a = SubSeq(b, 1, Len(a))

\* ------------------------------------------------------------------ C1
\* C1: a successful invoke(N, C, None) makes the sink receive exactly the
\* line 'command=N', then one line per entry of C in C's order ('name' or
\* 'name=value'), then one flush: |C|+1 lines and 1 flush.
C1_OneLinePerCapability ==
    (call.op = "invoke" /\ call.arguments = None /\ result = "reader") =>
        /\ SinkPackets =
              << LinePacket(CommandPrefix \o call.command) >>
              \o [i \in 1..Len(call.capabilities) |->
                    LinePacket(IF call.capabilities[i].value = None
                               THEN call.capabilities[i].name
                               ELSE call.capabilities[i].name \o <<"=">>
                                    \o call.capabilities[i].value[1])]
              \o << FlushPacket >>
        /\ Len(SinkPackets) = Len(call.capabilities) + 2

\* ------------------------------------------------------------------ C2
\* C2: however the writer ends (into_read() or drop), the sink receives
\* exactly the queued messages, each once and in their order, after every
\* packet of the write phase and before anything is read; nothing of them is
\* sent before the writer ends, and nothing is sent again afterwards (reads,
\* dropping the reader).  When an emission fails only those before it went out.
C2_TeardownOnceInOrder ==
    /\ WriterEnded => TeardownSent = ExpectedTeardown
    /\ phase = "writing" => TeardownEvents = <<>>
    /\ IsPrefix(TeardownSent, ExpectedTeardown)
    /\ \A i, j \in 1..Len(log) :
          (log[i].ph = "teardown" /\ log[j].ph = "write") => j < i
    /\ \A i, j \in 1..Len(log) :
          (log[i].ph = "teardown" /\ log[j].ph = "read") => i < j

C2_Witness ==
    /\ phase = "reading"
    /\ call.op = "none"
    /\ Len(given.on_drop) = 2 /\ given.on_drop[1] # given.on_drop[2]
    /\ TeardownSent = ExpectedTeardown
    /\ \E i \in 1..Len(log) : log[i].ph = "write" /\ log[i].st = "ok"
    /\ \E i \in 1..Len(log) : log[i].ph = "read"

\* ------------------------------------------------------------------ C3
\* C3: the transition from writing to reading is one way: in the log of a
\* request the writes come first, then the teardown messages, then the
\* reads; once into_read() has happened nothing more is written to the sink
\* for that request and no writer of that request exists again.
NoWriteAfterIntoRead ==
    phase \in {"reading", "done", "abandoned"} =>
        /\ (live'.writer = 1 => reqId' = reqId + 1)
        /\ (reqId' = reqId /\ ~Settled' =>
               SelectSeq(log', LAMBDA e : e.ph # "read")
                  = SelectSeq(log, LAMBDA e : e.ph # "read"))
C3_OneWayTransition ==
    [](LogInPhaseOrder) /\ [][NoWriteAfterIntoRead]_vars

C3_Witness ==
    /\ phase = "done"
    /\ call.op = "none"
    /\ Len(WriteEvents) >= 1
    /\ Len(TeardownEvents) >= 1
    /\ Len(ReadEvents) >= 2

\* ------------------------------------------------------------------ C4
\* C4: a failed write of a queued teardown message is a fault, never an
\* error result: the program does not go on, no ResponseReader is handed
\* out and the outcome is none of the Err values.
C4_TeardownFailureIsFault ==
    TeardownFailed =>
        /\ ~alive
        /\ result \in {"panic_teardown", "abort"}
        /\ live.reader = 0

C4_Witness ==
    /\ TeardownFailed
    /\ call.op = "none"
    /\ Len(given.on_drop) = 2
    /\ Len(TeardownSent) = 1
    /\ result = "panic_teardown"

\* ------------------------------------------------------------------ C5
\* C5: a writer made with on_drop = [Flush] sends exactly one flush packet
\* when it ends, also when nothing was written; a writer made with
\* on_drop = [] sends nothing when it ends, in both write modes and after
\* any number of writes.
C5_FlushOnceOrNothing ==
    /\ (WriterEnded /\ given.on_drop = <<Flush>>) => TeardownSent = <<FlushPacket>>
    /\ (given # NoGiven /\ given.on_drop = <<>>) =>
          /\ TeardownEvents = <<>>
          /\ \A i \in 1..Len(log) : log[i].ph = "write" \/ log[i].ph = "read"

C5_Witness ==
    /\ WriterEnded
    /\ call.op = "none"
    /\ given.on_drop = <<Flush>>
    /\ given.write_mode = "Binary"
    /\ WriteEvents = <<>>
    /\ SinkPackets = <<FlushPacket>>

\* ------------------------------------------------------------------ C6
\* C6: invoke(N, C, Some(args)) always ends with the incomplete-feature
\* fault and with no other outcome (stated for a transport whose handshake
\* has succeeded).
C6_ArgumentsAlwaysUnimplemented ==
    (call.op = "invoke" /\ call.arguments # None /\ handshaken) =>
        result = "panic_unimplemented"

\* ------------------------------------------------------------------ C7
\* C7: when arguments are supplied invoke fails at once: nothing of the
\* request has reached the sink, neither the command line, nor a capability
\* line, nor the flush.
C7_NothingSentWithArguments ==
    (call.op = "invoke" /\ call.arguments # None) => SinkPackets = <<>>

\* ------------------------------------------------------------------ C8
\* C8 (as claimed): when request() fails, or the write of the command line
\* or of a capability line fails inside invoke, invoke returns the Err, does
\* not fault, and the failed write is not issued again.
C8_Original ==
    (call.op = "invoke" /\ handshaken) =>
        /\ ~call.request_ok => (result = "err_request" /\ alive)
        /\ \A i \in 1..Len(log) :
              (log[i].ph = "write" /\ log[i].st # "ok") =>
                  /\ result = "err_io"
                  /\ alive
                  /\ \A j \in (i + 1)..Len(log) : log[j].ph # "write"

\* C8 (amended): when request() fails invoke returns that Err and nothing is
\* written.  When a line write fails with an error other than Interrupted
\* the write is not issued again and no further line is written; the queued
\* Flush is then emitted as the writer is dropped, and invoke returns the Err
\* if that emission works and faults if it fails as well.  A write that fails
\* with Interrupted is issued again by write_all.
C8_ErrorsSurfaceUnlessTeardownFails ==
    (call.op = "invoke" /\ handshaken) =>
        /\ ~call.request_ok => (result = "err_request" /\ alive /\ log = <<>>)
        /\ \A i \in 1..Len(log) :
              (log[i].ph = "write" /\ log[i].st = "err") =>
                  /\ \A j \in (i + 1)..Len(log) : log[j].ph = "teardown"
                  /\ TeardownFailed => (result = "panic_teardown" /\ ~alive)
                  /\ ~TeardownFailed => (result = "err_io" /\ alive)
        /\ \A i \in 1..Len(log) :
              (log[i].ph = "write" /\ log[i].st = "intr") =>
                  /\ i < Len(log)
                  /\ log[i + 1].ph = "write"
                  /\ log[i + 1].pkt = log[i].pkt

C8_Witness ==
    /\ call.op = "invoke" /\ handshaken
    /\ Len(call.capabilities) = 2
    /\ Len(log) = 3
    /\ log[1].st = "ok"
    /\ log[2].ph = "write" /\ log[2].st = "err"
    /\ log[3].ph = "teardown" /\ log[3].st = "ok"
    /\ result = "err_io"

\* ------------------------------------------------------------------ C9
\* C9: at most one handle of the transport (ref stream, RequestWriter,
\* ResponseReader) is alive at any time, and no handshake or request starts
\* while one is.
CallsOnlyWhenNoHandle ==
    (reqId' # reqId \/ hsCount' # hsCount) => LiveCount = 0
C9_OneHandle ==
    [](LiveCount <= 1) /\ [][CallsOnlyWhenNoHandle]_vars

C9_Witness ==
    /\ reqId = 2
    /\ live.reader = 1
    /\ Len(ReadEvents) >= 1

\* ----------------------------------------------------------------- C10
\* C10 (as claimed): a request is made only after the handshake has
\* succeeded and its ref stream was read to the end, and a later request only
\* after the previous writer went through into_read() and its response was
\* read.
RequestAfterDrainAndIntoRead ==
    reqId' = reqId + 1 =>
        /\ handshaken
        /\ refsLeft = 0
        /\ (reqId >= 1 => phase = "done")
C10_Original == [][RequestAfterDrainAndIntoRead]_vars

\* C10 (amended): a request is made only after a handshake has succeeded and
\* when no handle of the transport is alive: the ref stream has been let go
\* (drained or not) and the previous writer has ended, through into_read()
\* and the release of its reader (read to the end or not) or by being dropped.
RequestAfterHandlesReleased ==
    reqId' = reqId + 1 =>
        /\ handshaken
        /\ LiveCount = 0
        /\ (reqId >= 1 => phase \in {"done", "abandoned", "dropped"})
C10_RequestAfterRelease == [][RequestAfterHandlesReleased]_vars

C10_Witness ==
    /\ reqId = 1
    /\ phase = "writing"
    /\ refsLeft > 0

\* ----------------------------------------------------------------- C11
\* C11: request() or invoke() on a transport whose handshake has not
\* succeeded is a fault (panic), whatever was tried before: it hands out no
\* RequestWriter and no ResponseReader, starts no request and writes nothing
\* to the sink; as long as no handshake has succeeded the only outcomes are a
\* failed handshake and this fault.
C11_NoRequestBeforeHandshake ==
    /\ ~handshaken =>
          /\ result \in {"none", "err_handshake", "panic_no_handshake"}
          /\ reqId = 0
          /\ live.writer = 0 /\ live.reader = 0
          /\ given = NoGiven
          /\ log = <<>>
    /\ result = "panic_no_handshake" =>
          /\ ~handshaken
          /\ ~alive
          /\ LiveCount = 0

C11_Witness ==
    /\ result = "panic_no_handshake"
    /\ call.op = "invoke"
    /\ hsCount = 1
    /\ log = <<>>

C18_TeardownBypassesFraming ==
    \A i \in 1..Len(TeardownEvents) :
        /\ i <= Len(given.on_drop)
        /\ TeardownEvents[i].pkt =
              (IF given.on_drop[i].kind = "Flush" THEN FlushPacket
               ELSE TextPacket(given.on_drop[i].bytes))
        /\ TeardownEvents[i].pkt.kind \notin {"data", "line"}
        /\ \A m \in WriteModes :
              TeardownEvents[i].pkt # Frame(m, given.on_drop[i].bytes)

C18_Witness ==
    /\ phase = "dropped"
    /\ call.op = "none"
    /\ given.write_mode = "Binary"
    /\ given.on_drop = <<Text(<<"d", "o", "n", "e">>), Flush>>
    /\ \E i \in 1..Len(log) :
          log[i].ph = "write" /\ log[i].st = "ok" /\ log[i].pkt.kind = "data"
    /\ TeardownSent = <<TextPacket(<<"d", "o", "n", "e">>), FlushPacket>>

\* ----------------------------------------------------------------- C20
\* C20: the teardown messages are written at most once each, also when an
\* emission fails: the attempts follow the queued list one by one, the
\* failed attempt is the last thing written for the request (the messages
\* after it are never written, none is written again), the program faults,
\* and once the writer has ended its queue is empty.
C20_TeardownAtMostOnce ==
    /\ Len(TeardownEvents) <= Len(given.on_drop)
    /\ \A i \in 1..Len(TeardownEvents) :
          /\ TeardownEvents[i].pkt = ExpectedTeardown[i]
          /\ TeardownEvents[i].st # "ok" =>
                /\ i = Len(TeardownEvents)
                /\ log[Len(log)] = TeardownEvents[i]
                /\ ~alive
    /\ phase # "writing" => writer.on_drop = <<>>

C20_Witness ==
    /\ TeardownFailed
    /\ call.op = "none"
    /\ Len(given.on_drop) = 2
    /\ Len(TeardownEvents) = 1
    /\ TeardownSent = <<>>
    /\ Len(WriteEvents) >= 1
    /\ writer.on_drop = <<>>

\* ----------------------------------------------------------------- C12
\* C12: every write call of the write phase is framed as the write mode
\* given at construction says: in Binary mode the packet is one data packet
\* holding exactly the bytes of the buffer, in line mode it is one line
\* packet holding the buffer's line, so that N accepted write calls are N
\* line packets at the sink; the mode of a writer is the one it was made
\* with for as long as it lives.
C12_FramingFollowsMode ==
    /\ \A i \in 1..Len(WriteEvents) :
          /\ given.write_mode = "Binary" =>
                WriteEvents[i].pkt = [kind |-> "data", bytes |-> WriteEvents[i].buf]
          /\ given.write_mode = "OneLFTerminatedLinePerWriteCall" =>
                WriteEvents[i].pkt = [kind |-> "line", bytes |-> WriteEvents[i].buf]
    /\ given.write_mode = "OneLFTerminatedLinePerWriteCall" =>
          Len(SelectSeq(SinkPackets, LAMBDA p : p.kind = "line"))
             = Len(SelectSeq(WriteEvents, LAMBDA e : e.st = "ok"))
    /\ given.write_mode = "Binary" =>
          \A i \in 1..Len(SinkPackets) : SinkPackets[i].kind # "line"
    /\ live.writer = 1 => writer.mode = given.write_mode

C12_Witness ==
    /\ phase = "writing"
    /\ call.op = "none"
    /\ given.write_mode = "OneLFTerminatedLinePerWriteCall"
    /\ Len(WriteEvents) = 2
    /\ SinkPackets = <<LinePacket(<<"a">>), LinePacket(<<"a">>)>>

\* ----------------------------------------------------------------- C19
\* C19: the decoration is transparent in the write phase: every write of
\* the writer that was made is the write an undecorated writer of the same
\* mode (on_drop = []) makes for the same buffer and the same answer of the
\* sink, packet and result alike; what the sink has received is what it
\* receives from that writer, followed by the teardown messages.
UndecoratedTwin == NewFromBufread(given.write_mode, <<>>)
HandshakeDowngradesOnly ==
    (hsCount' = hsCount + 1 /\ result' = "handshake") =>
        /\ handshaken'
        /\ ProtocolRank(actual') <= ProtocolRank(requested')
        /\ (actual' = "V2") <=> (live'.refs = 0)
        /\ (actual' # "V2") <=> (live'.refs = 1)
C14_DowngradeOnly ==
    /\ [](result = "handshake" =>
             /\ ProtocolRank(actual) <= ProtocolRank(requested)
             /\ actual = "V2" => (live.refs = 0 /\ refsLeft = 0))
    /\ [][HandshakeDowngradesOnly]_vars

C14_Witness ==
    /\ result = "handshake"
    /\ requested = "V2"
    /\ actual = "V1"
    /\ live.refs = 1
    /\ refsLeft = MaxRefs

\* ----------------------------------------------------------------- C13
\* C13: a sideband line taken off the reply while a handler is installed
\* goes to the handler exactly once, with the flag of its channel, and is
\* never surfaced as payload; a payload line, and any line taken while no
\* handler is installed, is never given to a handler and is surfaced exactly
\* once, in the order of the reply.  Installing or clearing the handler
\* changes nothing else: the line already buffered stays readable.
RoutedToHandler(i) == rd.met[i] /\ rd.reply[i] # "data"
HandlerCallsFor(i) == Len(SelectSeq(rd.calls, LAMBDA c : c.line = i))
SurfacedCount(i) ==
    Len(SelectSeq(rd.payload, LAMBDA j : j = i)) + (IF rd.buf = Some(i) THEN 1 ELSE 0)
Surfaced == rd.payload \o rd.buf
OnlyHandlerChanges ==
    (live.reader = 1 /\ live'.reader = 1 /\ rd'.handler # rd.handler) =>
        rd' = [rd EXCEPT !.handler = rd'.handler]
ProgressRouted ==
    /\ Len(rd.met) = rd.pos
    /\ \A i \in 1..rd.pos :
          /\ RoutedToHandler(i) => (HandlerCallsFor(i) = 1 /\ SurfacedCount(i) = 0)
          /\ ~RoutedToHandler(i) => (HandlerCallsFor(i) = 0 /\ SurfacedCount(i) = 1)
    /\ \A k \in 1..Len(rd.calls) :
          /\ rd.calls[k].line \in 1..rd.pos
          /\ rd.calls[k].is_err = (rd.reply[rd.calls[k].line] = "error")
    /\ \A j, k \in 1..Len(Surfaced) : j < k => Surfaced[j] < Surfaced[k]
C13_ProgressRouting == [](ProgressRouted) /\ [][OnlyHandlerChanges]_vars

C13_Witness ==
    /\ live.reader = 1
    /\ rd.reply = <<"error", "data">>
    /\ rd.handler = None
    /\ rd.calls = << [h |-> "f", is_err |-> TRUE, line |-> 1] >>
    /\ rd.payload = <<2>>

\* ----------------------------------------------------------------- C15
\* C15: the write phase and the transition leave the paired reader alone:
\* no step taken while the writer lives (write, flush, into_read(), drop and
\* the teardown messages they emit) changes the reader, and neither does
\* invoke; until the first read the reader handed out is at the very start
\* of the reply, nothing taken, nothing buffered, its handler as it was.
ReaderUntouchedByWriter ==
    /\ live.writer = 1 => rd' = rd
    /\ (call.op # "invoke" /\ call'.op = "invoke") => rd' = FreshReader(rd.reply)
ReaderAtStart ==
    (phase = "writing" \/ (phase = "reading" /\ ReadEvents = <<>>)) =>
        /\ rd = FreshReader(rd.reply)
        /\ rd.pos = 0 /\ rd.buf = None /\ rd.payload = <<>>
        /\ rd.handler = None /\ rd.calls = <<>>
C15_ReaderUntouched == [](ReaderAtStart) /\ [][ReaderUntouchedByWriter]_vars

C15_Witness ==
    /\ phase = "reading"
    /\ result = "reader"
    /\ call.op = "none"
    /\ Len(WriteEvents) = 1
    /\ TeardownSent = <<TextPacket(<<"d", "o", "n", "e">>), FlushPacket>>
    /\ ReadEvents = <<>>
    /\ rd = FreshReader(DataReply)

\* ----------------------------------------------------------------- C16
\* C16: for a well-formed input (a name without " <", an email without
\* "> ", a timestamp of digits) decode succeeds and returns the name and the
\* email as they were written (empty ones too), the timestamp as a number,
\* sign Minus exactly when the sign byte is '-', and the offset
\* HH*3600 + MM*60, negated under Minus.  Whenever decode succeeds the offset
\* is <= 0 under Minus and >= 0 under Plus, '-0000' gives Minus with offset
\* 0, and name and email are the text around the first " <" of the input.
SigWellFormed(p) ==
    /\ TakeUntil(p.name, <<" ", "<">>) = 0
    /\ TakeUntil(p.email, <<">", " ">>) = 0
    /\ Btoi(p.time) >= 0
C16_SignatureDecoded ==
    (sig.parts # None /\ sig.out # None) =>
        LET p == sig.parts[1]
            r == sig.out[1]
            secs == Btoi(p.hh) * 3600 + Btoi(p.mm) * 60
        IN /\ SigWellFormed(p) =>
                 /\ r.ok
                 /\ r.name = p.name
                 /\ r.email = p.email
                 /\ r.time = Btoi(p.time)
                 /\ (r.sign = "Minus") <=> (p.tz = "-")
                 /\ (r.sign = "Plus") <=> (p.tz # "-")
                 /\ r.offset = (IF p.tz = "-" THEN 0 - secs ELSE secs)
                 /\ r.rest = p.rest
           /\ r.ok =>
                 /\ r.sign = "Minus" => r.offset <= 0
                 /\ r.sign = "Plus" => r.offset >= 0
                 /\ (p.tz = "-" /\ p.hh = <<"0", "0">> /\ p.mm = <<"0", "0">>) =>
                        (r.sign = "Minus" /\ r.offset = 0)
                 /\ IsPrefix(r.name \o <<" ", "<">> \o r.email \o <<">", " ">>,
                             sig.input)
                 /\ TakeUntil(r.name, <<" ", "<">>) = 0

C16_Witness ==
    /\ sig.parts # None /\ sig.out # None
    /\ sig.input = <<" ", "<", ">", " ", "4", "2", " ", "-", "0", "0", "0", "0">>
    /\ sig.out[1].ok
    /\ sig.out[1].name = <<>> /\ sig.out[1].email = <<>>
    /\ sig.out[1].time = 42
    /\ sig.out[1].sign = "Minus"
    /\ sig.out[1].offset = 0
====
